---- MODULE Spec2Model ----
(***************************************************************************)
(* A model of oro_product.py: the Product payload builder (to_api_data),   *)
(* the update rewrite in create_or_update_product, and one or more runs of *)
(* main() against a remote platform, stepped at each network request.      *)
(***************************************************************************)
EXTENDS Integers, Sequences, FiniteSets, TLC

VARIABLES
    run,     \* run[p]: the state of process p running main()
    remote,  \* the product records held by the remote platform
    pure     \* the inputs and the result of one payload construction

vars == <<run, remote, pure>>

----------------------------------------------------------------------------
(* Values *)

\* Python's None (and JSON null), kept apart from every string of the program.
None == "<None>"

\* A command line flag, or a constructor argument, that was not given.
Omitted == "<omitted>"

\* Python truthiness of an Optional[str].
Truthy(s) == s # None /\ s # ""

\* d[k] = v on a dict.
SetKey(d, k, v) == [x \in (DOMAIN d) \cup {k} |-> IF x = k THEN v ELSE d[x]]

\* del d[k] on a dict.
DelKey(d, k) == [x \in (DOMAIN d) \ {k} |-> d[x]]

\* An Optional value that is not a string: <<>> is None, <<v>> is v.
Some(v) == <<v>>

----------------------------------------------------------------------------
(* Bounds *)

\* The most records the platform holds before the runs start.
MaxRecords == 2

\* The concurrent runs of main() in SpecRace: two runs for the same SKU.
RaceRuns == {1, 2}

----------------------------------------------------------------------------
(* Product and its payload *)

\* The dataclass constructor: unit and inventory_status take their defaults
\* only when the argument is not given; an explicit None is kept.
Product(sku, name, unit, inventory_status) ==
    [sku |-> sku,
     name |-> name,
     unit |-> IF unit = Omitted THEN "item" ELSE unit,
     inventory_status |-> IF inventory_status = Omitted THEN "in_stock"
                          ELSE inventory_status]

\* The included resource of the unit precision.
unit_precision(self) ==
    [type |-> "productunitprecisions",
     id |-> "product-unit-precision-id-1",
     attributes |-> [precision |-> 0, conversionRate |-> 1, sell |-> 1],
     relationships |->
        [unit |-> [data |-> [type |-> "productunits", id |-> self.unit]]]]

\* The payload before the unit block.
base_data(self) ==
    [data |->
        [type |-> "products",
         attributes |->
            [sku |-> self.sku, status |-> "enabled", productType |-> "simple",
             featured |-> TRUE, newArrival |-> TRUE],
         relationships |->
            [owner |-> [data |-> [type |-> "businessunits", id |-> "1"]],
             organization |-> [data |-> [type |-> "organizations", id |-> "1"]],
             names |-> [data |-> <<[type |-> "productnames", id |-> "names-1"]>>],
             attributeFamily |->
                [data |-> [type |-> "attributefamilies", id |-> "1"]],
             inventory_status |->
                [data |-> [type |-> "prodinventorystatuses",
                           id |-> self.inventory_status]]]],
     included |->
        <<[type |-> "productnames",
           id |-> "names-1",
           attributes |-> [fallback |-> None, string |-> self.name],
           relationships |-> [localization |-> [data |-> None]]]>>]

\* The test `if self.unit:`.
unit_is_set(self) == Truthy(self.unit)

\* Faulty variant: the unit block is added whenever unit is not None.
to_api_data_unit_not_none(self) ==
    LET data == base_data(self)
        ref == [type |-> "productunitprecisions",
                id |-> "product-unit-precision-id-1"]
    IN  IF self.unit # None
        THEN [data EXCEPT
                !.data.relationships =
                    SetKey(SetKey(@, "primaryUnitPrecision", [data |-> ref]),
                           "unitPrecisions", [data |-> <<ref>>]),
                !.included = Append(@, unit_precision(self))]
        ELSE data

\* Product.to_api_data
to_api_data(self) ==
    LET data == base_data(self)
        ref == [type |-> "productunitprecisions",
                id |-> "product-unit-precision-id-1"]
    IN  IF unit_is_set(self)
        THEN [data EXCEPT
                !.data.relationships =
                    SetKey(SetKey(@, "primaryUnitPrecision", [data |-> ref]),
                           "unitPrecisions", [data |-> <<ref>>]),
                !.included = Append(@, unit_precision(self))]
        ELSE data

\* Faulty variant: the update keeps the included unit precision resource.
update_data_keeps_included(product, existing_product) ==
    LET data == to_api_data(product)
        rel0 == data.data.relationships
        rel1 == IF "unitPrecisions" \in DOMAIN rel0
                THEN DelKey(rel0, "unitPrecisions") ELSE rel0
        rel2 == IF "primaryUnitPrecision" \in DOMAIN rel1
                THEN DelKey(rel1, "primaryUnitPrecision") ELSE rel1
    IN  [data |-> [SetKey(data.data, "id", existing_product.id)
                      EXCEPT !.relationships = rel2],
         included |-> data.included]

\* The update branch of create_or_update_product: the payload of the PATCH.
update_data(product, existing_product) ==
    LET data == to_api_data(product)
        rel0 == data.data.relationships
        rel1 == IF "unitPrecisions" \in DOMAIN rel0
                THEN DelKey(rel0, "unitPrecisions") ELSE rel0
        rel2 == IF "primaryUnitPrecision" \in DOMAIN rel1
                THEN DelKey(rel1, "primaryUnitPrecision") ELSE rel1
    IN  [data |-> [SetKey(data.data, "id", existing_product.id)
                      EXCEPT !.relationships = rel2],
         included |->
            SelectSeq(data.included,
                      LAMBDA item : item.type # "productunitprecisions")]

\* Faulty variant: an empty sku or name is refused.
build_raises_on_empty(product, existing) ==
    IF product.sku = "" \/ product.name = "" THEN "InvalidArgument"
    ELSE IF existing # <<>> /\ "id" \notin DOMAIN existing[1] THEN "KeyError"
    ELSE "none"

\* The exception raised while the request is built: existing_product['id']
\* on a record without an id; to_api_data raises nothing.
build_raises(product, existing) ==
    IF existing # <<>> /\ "id" \notin DOMAIN existing[1] THEN "KeyError"
    ELSE "none"

\* Faulty variant: every write is a POST.
write_method_always_post(existing) == "POST"

\* existing_product decides the method: `if existing_product:`.
write_method(existing) == IF existing # <<>> THEN "PATCH" ELSE "POST"

\* The payload of the write request.
write_data(product, existing) ==
    IF write_method(existing) = "PATCH"
    THEN update_data(product, existing[1])
    ELSE to_api_data(product)

----------------------------------------------------------------------------
(* Payload construction alone: every Product a caller can construct *)

Skus == {"", "ABC-1"}
Names == {"", "Widget"}
Units == {Omitted, None, "", "item", "kg"}
Statuses == {Omitted, None, "in_stock", "out_of_stock"}

\* The records a lookup can return: with an id (possibly empty) or without.
ExistingRecords ==
    {[type |-> "products", id |-> i] : i \in {"", "42", "7"}}
    \cup {[type |-> "products"]}

InitPayload ==
    /\ run = <<>>
    /\ remote = <<>>
    /\ \E sku \in Skus, name \in Names, unit \in Units, st \in Statuses,
          e \in {<<>>} \cup {Some(r) : r \in ExistingRecords} :
          pure = [product |-> Product(sku, name, unit, st),
                  existing |-> e,
                  mode |-> "none",
                  raised |-> "none",
                  payload |-> <<>>]

\* to_api_data() on the product, as the POST branch sends it.
BuildCreate ==
    /\ pure.mode = "none"
    /\ pure.existing = <<>>
    /\ pure' = [pure EXCEPT !.mode = "create",
                            !.raised = build_raises(pure.product, pure.existing),
                            !.payload = IF build_raises(pure.product, pure.existing) = "none"
                                        THEN Some(write_data(pure.product, pure.existing))
                                        ELSE <<>>]
    /\ UNCHANGED <<run, remote>>

\* The update branch on the product and a found record.
BuildUpdate ==
    /\ pure.mode = "none"
    /\ pure.existing # <<>>
    /\ pure' = [pure EXCEPT !.mode = "update",
                            !.raised = build_raises(pure.product, pure.existing),
                            !.payload = IF build_raises(pure.product, pure.existing) = "none"
                                        THEN Some(write_data(pure.product, pure.existing))
                                        ELSE <<>>]
    /\ UNCHANGED <<run, remote>>

NextPayload == BuildCreate \/ BuildUpdate

SpecPayload == InitPayload /\ [][NextPayload]_vars

----------------------------------------------------------------------------
(* The environment of a run: command line, configuration, remote platform *)

\* The command lines: --help, and each flag given or not.
Argvs ==
    [help : BOOLEAN,
     sku : {Omitted, "", "ABC-1"},
     name : {Omitted, "", "Widget"},
     unit : {Omitted, "", "kg"},
     inventory_status : {Omitted, "out_of_stock"}]

\* A complete configuration, as the .env file and os.environ give it.
CompleteEnv ==
    [file |-> "ok", base_url |-> "https://oro.example", client_id |-> "cid",
     client_secret |-> "secret", admin_path |-> "admin"]

\* The configurations: complete, one variable unset or empty, a missing
\* .env file (os.environ is used), a malformed .env file.
Envs ==
    {CompleteEnv,
     [CompleteEnv EXCEPT !.file = "missing"],
     [CompleteEnv EXCEPT !.file = "malformed"],
     [CompleteEnv EXCEPT !.base_url = None],
     [CompleteEnv EXCEPT !.client_id = ""],
     [CompleteEnv EXCEPT !.client_secret = None],
     [CompleteEnv EXCEPT !.admin_path = ""]}

\* The access tokens the token endpoint issues.
Tokens == {"tok-a", "tok-b"}

\* The ids the platform gives to the records it creates, in order.
IdPool == <<"101", "102", "103", "104">>

\* The records the platform may hold before the runs start; a record may come
\* back from the API with an empty id or with none.
RemoteRecords ==
    {[type |-> "products", id |-> "42", sku |-> "ABC-1"],
     [type |-> "products", id |-> "", sku |-> "ABC-1"],
     [type |-> "products", sku |-> "ABC-1"],
     [type |-> "products", id |-> "7", sku |-> ""]}

RECURSIVE SeqsUpTo(_, _)
\* The sequences over S of length at most n.
SeqsUpTo(S, n) ==
    IF n = 0 THEN {<<>>}
    ELSE LET shorter == SeqsUpTo(S, n - 1)
         IN  shorter \cup {Append(q, x) : q \in shorter, x \in S}

\* The server side of ?filter[sku]=<sku>.
Matching(records, sku) == SelectSeq(records, LAMBDA r : r.sku = sku)

\* The first id of the pool that no record uses; <<>> when there is none.
FreshId(records) ==
    LET used == {records[i].id : i \in {j \in 1..Len(records) : "id" \in DOMAIN records[j]}}
        free == {i \in 1..Len(IdPool) : IdPool[i] \notin used}
    IN  IF free = {} THEN <<>>
        ELSE Some(IdPool[CHOOSE i \in free : \A j \in free : i <= j])

\* The bodies of a successful write response for record id `id` and `sku`.
ResponseBodies(id, sku) ==
    LET full == [type |-> "products", id |-> id, attributes |-> [sku |-> sku]]
        nameres == [type |-> "productnames", attributes |-> [string |-> "Widget"]]
    IN  {[meta |-> "empty"],
         [data |-> [type |-> "products"]],
         [data |-> [type |-> "products", id |-> id]],
         [data |-> [type |-> "products", id |-> id, attributes |-> [status |-> "enabled"]]],
         [data |-> full],
         [data |-> full, included |-> <<nameres>>],
         [data |-> full, included |-> <<[id |-> "x"]>>],
         [data |-> full, included |-> <<[type |-> "productnames"]>>],
         [data |-> full, included |-> <<nameres, [id |-> "x"]>>]}

----------------------------------------------------------------------------
(* The code of a run *)

\* argparse's default= for a flag that was not given.
arg_default(value, default) == IF value = Omitted THEN default ELSE value

\* parser.parse_args(): --help prints the usage and exits 0; a missing
\* required flag is an error, exit 2; <<>> when the parse succeeds.
parse_exit(argv) ==
    IF argv.help THEN Some(0)
    ELSE IF argv.sku = Omitted \/ argv.name = Omitted THEN Some(2)
    ELSE <<>>

\* all([base_url, client_id, client_secret, admin_path])
config_complete(env) ==
    /\ Truthy(env.base_url)
    /\ Truthy(env.client_id)
    /\ Truthy(env.client_secret)
    /\ Truthy(env.admin_path)

\* Faulty variant: the cached token is never used.
token_cached_never(token) == FALSE

\* `if self.token:` in get_access_token.
token_cached(token) == Truthy(token)

\* Faulty variant: the failure of the token exchange is raised to the caller.
token_failure_reraised == "RequestException"

\* get_access_token handles a RequestException by sys.exit(1).
token_failure_raises == "SystemExit"

\* Faulty variant: the lookup handles no exception.
lookup_catches_nothing(exc) == FALSE

\* `except requests.exceptions.RequestException` in get_product_by_sku.
lookup_catches(exc) == exc = "RequestException"

\* `except requests.exceptions.RequestException` in create_or_update_product.
write_catches(exc) == exc = "RequestException"

\* `except Exception` in main: SystemExit is not an Exception.
main_catches(exc) == exc # "SystemExit"

\* Faulty variant: the lookup never reports a record.
lookup_result_never_found(records, data) == <<>>

\* response_data['data'][0] if the list is not empty, else None.
lookup_result(records, data) ==
    IF data # <<>> THEN Some(data[1]) ELSE <<>>

\* The URL of the write request, as path segments.
write_url(env, existing) ==
    IF write_method(existing) = "PATCH"
    THEN <<env.base_url, env.admin_path, "api", "products", existing[1].id>>
    ELSE <<env.base_url, env.admin_path, "api", "products">>

\* Faulty variant: data.id alone makes a response a success.
report_raises_never(result) == "none"

RECURSIVE included_raises(_)
\* The loop over result['included']: it reads each entry's type, and stops
\* at the first productnames entry after reading its attributes.string.
included_raises(included) ==
    IF included = <<>> THEN "none"
    ELSE LET item == Head(included)
         IN  IF "type" \notin DOMAIN item THEN "KeyError"
             ELSE IF item.type = "productnames"
                  THEN IF "attributes" \in DOMAIN item
                          /\ "string" \in DOMAIN item.attributes
                       THEN "none" ELSE "KeyError"
                  ELSE included_raises(Tail(included))

\* `'data' in result and 'id' in result['data']`
report_ok(result) == "data" \in DOMAIN result /\ "id" \in DOMAIN result.data

\* The exception raised while a successful result is printed.
report_raises(result) ==
    IF "attributes" \notin DOMAIN result.data
       \/ "sku" \notin DOMAIN result.data.attributes
    THEN "KeyError"
    ELSE IF "included" \in DOMAIN result
         THEN included_raises(result.included)
         ELSE "none"

\* A run before its first step.
InitRun(argv, env) ==
    [pc |-> "start", argv |-> argv, env |-> env, product |-> <<>>,
     token |-> None, lookup |-> "none", existing_product |-> <<>>,
     request |-> <<>>, result |-> <<>>, exit_code |-> <<>>, reqs |-> <<>>]

\* The process ends with this exit code.
Exit(r, code) == [r EXCEPT !.pc = "exited", !.exit_code = Some(code)]

\* An exception raised at `site` ("lookup": inside the try of
\* get_product_by_sku; "write": inside the try of create_or_update_product;
\* "main": elsewhere under main's try) goes through the handlers around it.
Propagate(r, exc, site) ==
    IF site = "lookup" /\ lookup_catches(exc)
    THEN [r EXCEPT !.existing_product = <<>>, !.lookup = "failed", !.pc = "build"]
    ELSE IF site = "write" /\ write_catches(exc) THEN Exit(r, 1)
    ELSE IF main_catches(exc) THEN Exit(r, 1)
    ELSE Exit(r, 1)

\* A request as the log keeps it.
Request(kind, method, url, query, json, auth, outcome, response) ==
    [kind |-> kind, method |-> method, url |-> url, query |-> query,
     json |-> json, auth |-> auth, outcome |-> outcome, response |-> response]

\* main: parse the command line and construct the Product.
parse_args(p) ==
    /\ run[p].pc = "start"
    /\ LET r == run[p]
           a == r.argv
       IN  run' = [run EXCEPT ![p] =
                IF parse_exit(a) # <<>> THEN Exit(r, parse_exit(a)[1])
                ELSE [r EXCEPT
                        !.pc = "init",
                        !.product =
                            Some(Product(a.sku, a.name,
                                         arg_default(a.unit, "item"),
                                         arg_default(a.inventory_status, "in_stock")))]]
    /\ UNCHANGED <<remote, pure>>

\* OroProductManager.__init__: load the .env file, read and check the
\* configuration.
manager_init(p) ==
    /\ run[p].pc = "init"
    /\ LET r == run[p]
       IN  run' = [run EXCEPT ![p] =
                IF r.env.file = "malformed" THEN Exit(r, 1)
                ELSE IF ~config_complete(r.env) THEN Exit(r, 1)
                ELSE [r EXCEPT !.token = None, !.pc = "lookup_headers"]]
    /\ UNCHANGED <<remote, pure>>

\* get_headers -> get_access_token, called for the lookup and for the write.
get_access_token(p) ==
    /\ run[p].pc \in {"lookup_headers", "write_headers"}
    /\ LET r == run[p]
           site == IF r.pc = "lookup_headers" THEN "lookup" ELSE "write"
           next == IF r.pc = "lookup_headers" THEN "lookup_get" ELSE "write_send"
           sent(outcome) ==
               [r EXCEPT !.reqs = Append(@,
                   Request("token", "POST", <<r.env.base_url, "oauth2-token">>,
                           <<>>, <<>>, None, outcome, <<>>))]
       IN  IF token_cached(r.token)
           THEN run' = [run EXCEPT ![p] = [r EXCEPT !.pc = next]]
           ELSE \/ \E t \in Tokens :
                      run' = [run EXCEPT ![p] =
                                [sent("ok") EXCEPT !.token = t, !.pc = next]]
                \/ run' = [run EXCEPT ![p] =
                             Propagate(sent("error"), token_failure_raises, site)]
                \/ run' = [run EXCEPT ![p] =
                             Propagate(sent("nokey"), "KeyError", site)]
    /\ UNCHANGED <<remote, pure>>

\* get_product_by_sku: the GET and what it returns.
lookup_get(p) ==
    /\ run[p].pc = "lookup_get"
    /\ LET r == run[p]
           sku == r.product[1].sku
           sent(outcome) ==
               [r EXCEPT !.reqs = Append(@,
                   Request("lookup", "GET",
                           <<r.env.base_url, r.env.admin_path, "api", "products">>,
                           Some(sku), <<>>, r.token, outcome,
                           IF outcome = "ok" THEN Some(Matching(remote, sku))
                           ELSE <<>>))]
           returned(rr, e) ==
               [rr EXCEPT !.existing_product = e,
                          !.lookup = IF e = <<>> THEN "empty" ELSE "found",
                          !.pc = "build"]
       IN  \/ run' = [run EXCEPT ![p] =
                        Propagate(sent("error"), "RequestException", "lookup")]
           \/ \E exc \in {"RequestException", "ValueError"} :
                 run' = [run EXCEPT ![p] = Propagate(sent("badjson"), exc, "lookup")]
           \/ run' = [run EXCEPT ![p] = returned(sent("nodata"), <<>>)]
           \/ run' = [run EXCEPT ![p] =
                        returned(sent("ok"),
                                 lookup_result(remote, Matching(remote, sku)))]
    /\ UNCHANGED <<remote, pure>>

\* create_or_update_product after the lookup: method, URL and payload.
build(p) ==
    /\ run[p].pc = "build"
    /\ LET r == run[p]
           product == r.product[1]
           e == r.existing_product
           exc == build_raises(product, e)
       IN  run' = [run EXCEPT ![p] =
                IF exc # "none" THEN Propagate(r, exc, "main")
                ELSE [r EXCEPT
                        !.request = Some([method |-> write_method(e),
                                          url |-> write_url(r.env, e),
                                          json |-> write_data(product, e)]),
                        !.pc = "write_headers"]]
    /\ UNCHANGED <<remote, pure>>

\* requests.request(method, product_url, ...) and the handling of its
\* response; the platform creates a record when it accepts a POST.
write_send(p) ==
    /\ run[p].pc = "write_send"
    /\ LET r == run[p]
           q == r.request[1]
           sku == q.json.data.attributes.sku
           sent(outcome, response) ==
               [r EXCEPT !.reqs = Append(@,
                   Request("write", q.method, q.url, <<>>, Some(q.json), r.token,
                           outcome, response))]
           fresh == FreshId(remote)
           id == IF q.method = "POST" THEN fresh[1] ELSE q.json.data.id
           applied ==
               IF q.method = "POST"
               THEN Append(remote, [type |-> "products", id |-> id, sku |-> sku])
               ELSE remote
       IN  \/ /\ run' = [run EXCEPT ![p] =
                           Propagate(sent("error", <<>>), "RequestException", "write")]
              /\ UNCHANGED remote
           \/ /\ q.method = "POST" => fresh # <<>>
              /\ remote' = applied
              /\ \/ \E exc \in {"RequestException", "ValueError"} :
                       run' = [run EXCEPT ![p] =
                                 Propagate(sent("badjson", <<>>), exc, "write")]
                 \/ \E body \in ResponseBodies(id, sku) :
                       run' = [run EXCEPT ![p] =
                                 [sent("ok", Some(body)) EXCEPT !.result = Some(body),
                                                    !.pc = "report"]]
    /\ UNCHANGED pure

\* main after create_or_update_product returned: print the result or fail.
report(p) ==
    /\ run[p].pc = "report"
    /\ LET r == run[p]
           result == r.result[1]
       IN  run' = [run EXCEPT ![p] =
                IF report_ok(result)
                THEN IF report_raises(result) # "none"
                     THEN Propagate(r, report_raises(result), "main")
                     ELSE Exit(r, 0)
                ELSE Exit(r, 1)]
    /\ UNCHANGED <<remote, pure>>

Next ==
    \/ \E p \in DOMAIN run : parse_args(p)
    \/ \E p \in DOMAIN run : manager_init(p)
    \/ \E p \in DOMAIN run : get_access_token(p)
    \/ \E p \in DOMAIN run : lookup_get(p)
    \/ \E p \in DOMAIN run : build(p)
    \/ \E p \in DOMAIN run : write_send(p)
    \/ \E p \in DOMAIN run : report(p)

\* The payload construction is idle during a run.
IdlePure ==
    [product |-> Product("", "", Omitted, Omitted),
     existing |-> <<>>, mode |-> "idle", raised |-> "none", payload |-> <<>>]

\* One run of main.
Init ==
    /\ pure = IdlePure
    /\ remote \in SeqsUpTo(RemoteRecords, MaxRecords)
    /\ \E argv \in Argvs, env \in Envs : run = [p \in {1} |-> InitRun(argv, env)]

Spec == Init /\ [][Next]_vars

\* Concurrent runs of main for the same product, with a complete
\* configuration, against a platform that holds no product of that SKU.
InitRace ==
    /\ pure = IdlePure
    /\ remote \in {q \in SeqsUpTo(RemoteRecords, MaxRecords - 1) :
                      Matching(q, "ABC-1") = <<>>}
    /\ \E unit \in {Omitted, ""} :
          run = [p \in RaceRuns |->
                    InitRun([help |-> FALSE, sku |-> "ABC-1", name |-> "Widget",
                             unit |-> unit, inventory_status |-> Omitted],
                            CompleteEnv)]

SpecRace == InitRace /\ [][Next]_vars

----------------------------------------------------------------------------
(* Vocabulary of the properties *)

\* The requests of kind k that run p has issued, in order.
Issued(p, k) == SelectSeq(run[p].reqs, LAMBDA q : q.kind = k)

\* The kinds of the requests run p has issued, in order.
Kinds(p) == [i \in 1..Len(run[p].reqs) |-> run[p].reqs[i].kind]

\* A payload carries nothing of the unit precision.
NoUnitPrecision(d) ==
    /\ "primaryUnitPrecision" \notin DOMAIN d.data.relationships
    /\ "unitPrecisions" \notin DOMAIN d.data.relationships
    /\ \A i \in 1..Len(d.included) : d.included[i].type # "productunitprecisions"

\* The collection URL and the URL of record id of run p's configuration.
CollectionUrl(p) ==
    <<run[p].env.base_url, run[p].env.admin_path, "api", "products">>

ItemUrl(p, id) == Append(CollectionUrl(p), id)

\* Run p's lookup was answered, and the answer lists at least one record.
LookupFound(p) ==
    \E i \in 1..Len(run[p].reqs) :
        LET q == run[p].reqs[i]
        IN  q.kind = "lookup" /\ q.response # <<>> /\ q.response[1] # <<>>

\* The first record of the answer to run p's lookup.
FoundRecord(p) == Issued(p, "lookup")[1].response[1][1]

\* Run p's lookup request failed: a network error or an error status.
LookupFailed(p) ==
    \E i \in 1..Len(run[p].reqs) :
        run[p].reqs[i].kind = "lookup" /\ run[p].reqs[i].outcome = "error"

\* Run p's lookup was answered with an empty list.
LookupEmpty(p) ==
    \E i \in 1..Len(run[p].reqs) :
        LET q == run[p].reqs[i]
        IN  q.kind = "lookup" /\ q.response = Some(<<>>)

\* The command line of run p is accepted by the parser.
Parsed(p) ==
    /\ ~run[p].argv.help
    /\ run[p].argv.sku # Omitted
    /\ run[p].argv.name # Omitted

\* The configuration of run p is readable and complete.
ConfigOk(p) ==
    /\ run[p].env.file # "malformed"
    /\ \A k \in {"base_url", "client_id", "client_secret", "admin_path"} :
          run[p].env[k] \notin {None, ""}

----------------------------------------------------------------------------
(* C1 *)

\* C1: the payload of every PATCH a run sends, and of every PATCH it has
\* built, has neither primaryUnitPrecision nor unitPrecisions under
\* data.relationships and no included entry of type productunitprecisions,
\* whatever the product's unit and the found record's id.
C1_UpdateHasNoUnitPrecision ==
    \A p \in DOMAIN run :
        /\ \A i \in 1..Len(run[p].reqs) :
              LET q == run[p].reqs[i]
              IN  q.kind = "write" /\ q.method = "PATCH"
                      => NoUnitPrecision(q.json[1])
        /\ run[p].request # <<>> /\ run[p].request[1].method = "PATCH"
              => NoUnitPrecision(run[p].request[1].json)

\* A PATCH for a product with a unit was sent.
C1_Witness ==
    \E p \in DOMAIN run : \E i \in 1..Len(run[p].reqs) :
        LET q == run[p].reqs[i]
        IN  /\ q.kind = "write" /\ q.method = "PATCH"
            /\ run[p].product[1].unit = "kg"
            /\ q.json[1].data.id = "42"

----------------------------------------------------------------------------
(* C2 *)

\* The entries of type productunitprecisions of a payload's included list.
PrecisionEntries(d) ==
    {i \in 1..Len(d.included) : d.included[i].type = "productunitprecisions"}

\* C2: the create payload of a product whose unit is set (neither None nor
\* empty) has primaryUnitPrecision and unitPrecisions referring to
\* "product-unit-precision-id-1" and exactly one included entry of type
\* productunitprecisions, whose relationships.unit.data.id is the unit; the
\* create payload of a product whose unit is unset has none of them.
C2_CreateUnitPrecision ==
    pure.mode = "create" =>
        /\ pure.payload # <<>>
        /\ LET d == pure.payload[1]
               rel == d.data.relationships
               unit == pure.product.unit
           IN  IF unit \notin {None, ""}
               THEN /\ "primaryUnitPrecision" \in DOMAIN rel
                    /\ rel.primaryUnitPrecision.data.id = "product-unit-precision-id-1"
                    /\ "unitPrecisions" \in DOMAIN rel
                    /\ Len(rel.unitPrecisions.data) = 1
                    /\ rel.unitPrecisions.data[1].id = "product-unit-precision-id-1"
                    /\ Cardinality(PrecisionEntries(d)) = 1
                    /\ \A i \in PrecisionEntries(d) :
                          d.included[i].relationships.unit.data.id = unit
               ELSE NoUnitPrecision(d)

\* A create payload was built for a product with a unit.
C2_Witness ==
    /\ pure.mode = "create"
    /\ pure.product.unit = "kg"
    /\ Len(pure.payload[1].included) = 2

----------------------------------------------------------------------------
(* C3 *)

\* C3: every write request of a run is a PATCH exactly when the run's lookup
\* was answered with a record; then its URL is the item URL of that record's
\* id and the payload's data.id is that id; otherwise it is a POST to the
\* collection URL and the payload has no data.id.
C3_PatchIffFound ==
    \A p \in DOMAIN run : \A i \in 1..Len(run[p].reqs) :
        LET q == run[p].reqs[i]
        IN  q.kind = "write" =>
                IF LookupFound(p)
                THEN /\ q.method = "PATCH"
                     /\ q.url = ItemUrl(p, FoundRecord(p).id)
                     /\ "id" \in DOMAIN q.json[1].data
                     /\ q.json[1].data.id = FoundRecord(p).id
                ELSE /\ q.method = "POST"
                     /\ q.url = CollectionUrl(p)
                     /\ "id" \notin DOMAIN q.json[1].data

\* A PATCH to .../api/products/42 was sent after the lookup found record 42.
C3_Witness ==
    \E p \in DOMAIN run : \E i \in 1..Len(run[p].reqs) :
        LET q == run[p].reqs[i]
        IN  /\ q.kind = "write" /\ q.method = "PATCH"
            /\ LookupFound(p)
            /\ q.url[Len(q.url)] = "42"

----------------------------------------------------------------------------
(* C4 *)

\* C4: in create and update payloads alike, the id of the inventory_status
\* relationship is the product's inventory status when it is set, and
\* "in_stock" when it is None.
C4_InventoryStatusDefault ==
    pure.payload # <<>> =>
        pure.payload[1].data.relationships.inventory_status.data.id
            = IF pure.product.inventory_status = None THEN "in_stock"
              ELSE pure.product.inventory_status

----------------------------------------------------------------------------
(* C5 *)

\* C5 as stated: no write request is issued for a product whose sku or name
\* is empty, nor an update for a found record whose id is empty.
C5_EmptyFieldsRefused ==
    \A p \in DOMAIN run : \A i \in 1..Len(run[p].reqs) :
        LET q == run[p].reqs[i]
        IN  q.kind = "write" =>
                /\ run[p].product[1].sku # ""
                /\ run[p].product[1].name # ""
                /\ q.method = "PATCH" => q.json[1].data.id # ""

\* C5 as amended: building the request validates nothing.  Once the lookup
\* has returned, the request is built for every sku and name, empty ones
\* included, with the sku and the name copied into the payload; the one
\* failure is a found record without an id key, which ends the run with
\* exit code 1 before any write.
C5_NoValidation ==
    \A p \in DOMAIN run :
        LET r == run[p]
        IN  /\ r.pc \in {"write_headers", "write_send", "report"} =>
                  /\ r.request # <<>>
                  /\ r.request[1].json.data.attributes.sku = r.product[1].sku
                  /\ r.request[1].json.included[1].attributes.string = r.product[1].name
            /\ r.pc = "exited" /\ r.lookup # "none" /\ r.request = <<>> =>
                  /\ LookupFound(p)
                  /\ "id" \notin DOMAIN FoundRecord(p)
                  /\ r.exit_code = Some(1)
                  /\ Issued(p, "write") = <<>>

\* A write was sent for a product whose sku and name are empty.
C5_Witness ==
    \E p \in DOMAIN run : \E i \in 1..Len(run[p].reqs) :
        LET q == run[p].reqs[i]
        IN  /\ q.kind = "write"
            /\ q.json[1].data.attributes.sku = ""
            /\ q.json[1].included[1].attributes.string = ""

----------------------------------------------------------------------------
(* C6 *)

\* C6: a failed lookup request does not end the run.  The lookup returns
\* None, and the run goes on to one POST to the collection URL with the
\* create payload of its product, as it does after a lookup answered with an
\* empty list.
C6_LookupFailureCreates ==
    \A p \in DOMAIN run :
        LET r == run[p]
        IN  LookupFailed(p) \/ LookupEmpty(p) =>
                /\ r.existing_product = <<>>
                /\ r.pc \in {"build", "write_headers", "write_send", "report", "exited"}
                /\ r.pc \in {"report", "exited"} => Len(Issued(p, "write")) = 1
                /\ \A i \in 1..Len(r.reqs) :
                      r.reqs[i].kind = "write" =>
                          /\ r.reqs[i].method = "POST"
                          /\ r.reqs[i].url = CollectionUrl(p)
                          /\ r.reqs[i].json = Some(to_api_data(r.product[1]))

\* A run whose lookup failed has sent its POST.
C6_Witness ==
    \E p \in DOMAIN run :
        /\ LookupFailed(p)
        /\ Len(Issued(p, "write")) = 1
        /\ Issued(p, "write")[1].method = "POST"

----------------------------------------------------------------------------
(* C7 *)

\* C7: when the token exchange fails, the run has ended with exit code 1,
\* the failed exchange is its last request, and it has issued neither a
\* lookup nor a write: the lookup's handler has not turned the failure into
\* "not found".
C7_TokenFailureIsFatal ==
    \A p \in DOMAIN run : \A i \in 1..Len(run[p].reqs) :
        LET q == run[p].reqs[i]
        IN  q.kind = "token" /\ q.outcome # "ok" =>
                /\ run[p].pc = "exited"
                /\ run[p].exit_code = Some(1)
                /\ i = Len(run[p].reqs)
                /\ Issued(p, "lookup") = <<>>
                /\ Issued(p, "write") = <<>>
                /\ run[p].lookup = "none"

\* A run whose token exchange was refused has ended.
C7_Witness ==
    \E p \in DOMAIN run :
        /\ Len(run[p].reqs) = 1
        /\ run[p].reqs[1].kind = "token"
        /\ run[p].reqs[1].outcome = "error"
        /\ run[p].exit_code = Some(1)

----------------------------------------------------------------------------
(* C8 *)

\* The last request of run p is a write answered with a success status and
\* a JSON body.
WriteSucceeded(p) ==
    /\ run[p].reqs # <<>>
    /\ run[p].reqs[Len(run[p].reqs)].kind = "write"
    /\ run[p].reqs[Len(run[p].reqs)].outcome = "ok"

\* The body of the answer to run p's write.
WriteBody(p) == run[p].reqs[Len(run[p].reqs)].response[1]

\* A response body contains data.id.
HasDataId(b) == "data" \in DOMAIN b /\ "id" \in DOMAIN b.data

\* A response body has every field the report reads: data.attributes.sku,
\* the type of each included entry up to the first productnames entry, and
\* that entry's attributes.string.
HasReportFields(b) ==
    /\ "attributes" \in DOMAIN b.data
    /\ "sku" \in DOMAIN b.data.attributes
    /\ "included" \in DOMAIN b =>
          \A i \in 1..Len(b.included) :
              (\A j \in 1..(i - 1) :
                  "type" \in DOMAIN b.included[j]
                  /\ b.included[j].type # "productnames")
              => /\ "type" \in DOMAIN b.included[i]
                 /\ b.included[i].type = "productnames" =>
                       /\ "attributes" \in DOMAIN b.included[i]
                       /\ "string" \in DOMAIN b.included[i].attributes

\* C8 as stated: a run ends with exit code 0 or 1, and with 0 exactly when
\* the configuration is complete, the token was obtained, the write was
\* answered with a success status and the body contains data.id.
C8_ExitCodeZeroIff ==
    \A p \in DOMAIN run :
        run[p].pc = "exited" =>
            /\ run[p].exit_code \in {Some(0), Some(1)}
            /\ run[p].exit_code = Some(0) <=>
                  /\ ConfigOk(p)
                  /\ run[p].token # None
                  /\ WriteSucceeded(p)
                  /\ HasDataId(WriteBody(p))

\* C8 as amended: --help ends the run with exit code 0 and a command line
\* without --sku or --name with exit code 2, both before the configuration
\* is read.  Every other run ends with exit code 0 or 1, and with 0 exactly
\* when the configuration is complete, the token was obtained, the write was
\* answered with a success status and the body contains data.id and every
\* field the report reads.  A run that has not ended can take a step.
C8_ExitCodes ==
    \A p \in DOMAIN run :
        /\ run[p].pc # "exited" => run[p].exit_code = <<>> /\ ENABLED Next
        /\ run[p].pc = "exited" =>
              IF run[p].argv.help THEN run[p].exit_code = Some(0) /\ run[p].reqs = <<>>
              ELSE IF ~Parsed(p) THEN run[p].exit_code = Some(2) /\ run[p].reqs = <<>>
              ELSE /\ run[p].exit_code \in {Some(0), Some(1)}
                   /\ run[p].exit_code = Some(0) <=>
                         /\ ConfigOk(p)
                         /\ run[p].token # None
                         /\ WriteSucceeded(p)
                         /\ HasDataId(WriteBody(p))
                         /\ HasReportFields(WriteBody(p))

\* A run has ended with exit code 0 after a successful write.
C8_Witness ==
    \E p \in DOMAIN run :
        /\ run[p].exit_code = Some(0)
        /\ Parsed(p)
        /\ WriteSucceeded(p)

----------------------------------------------------------------------------
(* C9 *)

\* C9: the requests of a run are, in order, a prefix of: token exchange,
\* lookup GET, write.  So there is at most one request of each kind, none is
\* repeated after a failure, and the write follows exactly one lookup.  The
\* lookup and the write carry the token the exchange returned, and a run
\* with an incomplete configuration issues no request.
C9_RequestOrder ==
    \A p \in DOMAIN run :
        /\ Kinds(p) \in {<<>>, <<"token">>, <<"token", "lookup">>,
                         <<"token", "lookup", "write">>}
        /\ \A i \in 2..Len(run[p].reqs) :
              /\ run[p].reqs[1].outcome = "ok"
              /\ run[p].reqs[i].auth = run[p].token
              /\ run[p].reqs[i].auth \in Tokens
        /\ ~ConfigOk(p) \/ ~Parsed(p) => run[p].reqs = <<>>

\* A run has issued its three requests, the lookup having failed.
C9_Witness ==
    \E p \in DOMAIN run :
        /\ Kinds(p) = <<"token", "lookup", "write">>
        /\ run[p].reqs[2].outcome = "error"
        /\ run[p].reqs[3].auth = run[p].reqs[2].auth

----------------------------------------------------------------------------
(* C10 *)

\* The runs whose POST the platform has accepted.
Created ==
    {p \in DOMAIN run :
        \E i \in 1..Len(run[p].reqs) :
            LET q == run[p].reqs[i]
            IN  q.kind = "write" /\ q.method = "POST" /\ q.outcome # "error"}

\* C10: in concurrent runs for one SKU, each run decides between POST and
\* PATCH by the answer to its own lookup alone: a run whose lookup listed no
\* record sends a POST even when another run has created the product in the
\* meantime, and a run whose lookup listed a record sends a PATCH for it.
\* The platform then holds one product of that SKU for each accepted POST,
\* so both runs can create one.
C10_RaceCreatesDuplicate ==
    /\ \A p \in DOMAIN run : \A i \in 1..Len(run[p].reqs) :
          LET q == run[p].reqs[i]
          IN  q.kind = "write" =>
                  /\ LookupFound(p) =>
                        q.method = "PATCH" /\ q.json[1].data.id = FoundRecord(p).id
                  /\ ~LookupFound(p) =>
                        q.method = "POST" /\ "id" \notin DOMAIN q.json[1].data
    /\ \A p \in DOMAIN run :
          run[p].product # <<>> =>
              Len(Matching(remote, run[p].product[1].sku)) = Cardinality(Created)

\* Both runs saw no product of the SKU, both sent a POST, and the platform
\* holds two products of that SKU.
C10_Witness ==
    /\ \A p \in DOMAIN run :
          /\ LookupEmpty(p)
          /\ Len(Issued(p, "write")) = 1
          /\ Issued(p, "write")[1].method = "POST"
          /\ Issued(p, "write")[1].outcome = "ok"
    /\ Cardinality(DOMAIN run) = 2
    /\ Len(Matching(remote, "ABC-1")) = 2

====
